---- MODULE Spec2Model ----
(***************************************************************************)
(* A model of siren-nav's navigation engine: the steps (accept, follow),   *)
(* the reduction of a step list, and the SirenNav chain builder with its   *)
(* terminal operations, sqaush and goto.                                   *)
(*                                                                         *)
(* Promises are modelled by their status (pending, resolved, rejected).    *)
(* Objects that the code shares by reference and mutates (the headers of   *)
(* a request configuration) live in a heap, hdr, and are named by their    *)
(* index; everything else is a value.                                      *)
(***************************************************************************)
EXTENDS Naturals, Sequences, FiniteSets, TLC

\* ------------------------------------------------------------- bounds
\* Documents drawn for the follow step: at most this many embedded entities
\* and top-level links.
MaxEntities == 2
MaxLinks == 2
\* The chain builder: calls made on navigators (building and terminal ones)
\* when operations may overlap, calls made by a caller that awaits each one,
\* and steps per list.
MaxOps == 3
MaxSeqOps == 6
MaxSteps == 2

\* ------------------------------------------------------------- values
NoURI == "none"
NoState == [cur |-> NoURI, root |-> NoURI,
            config |-> [baseURL |-> NoURI, entity |-> NoURI, headers |-> 0],
            value |-> NoURI]
NoErr == "ok"
NoMatch == "NoMatch"
AmbiguousMatch == "AmbiguousMatch"

Rels == {"item", "other"}

\* new NavState(cur, root, config, value)
NavState(cur, root, config, value) ==
    [cur |-> cur, root |-> root, config |-> config, value |-> value]

\* cache.getOr(uri): the handle of the (possibly cached) fetch of uri; the
\* handle is named by the URI it was acquired for.
getOr(uri) == uri

\* getSelf(entity): the href of the entity's self link, or nothing.
getSelf(entity) == entity.self

\* An embedded entity used as the request configuration (follow, line 46):
\* the entity's own data; a Siren entity carries no baseURL and no headers.
EntityConfig(entity) ==
    [baseURL |-> NoURI, entity |-> entity.self, headers |-> 0]

\* ------------------------------------------------------------- follow
\* A follow that gives an entity followed by its self link the current
\* configuration.
RECURSIVE EntityStatesKeepConfig(_, _, _)
EntityStatesKeepConfig(entities, rel, state) ==
    IF entities = <<>> THEN <<>>
    ELSE LET entity == Head(entities)
             rest == EntityStatesKeepConfig(Tail(entities), rel, state)
         IN  IF rel \notin entity.rel THEN rest
             ELSE IF entity.href # NoURI
                  THEN <<NavState(entity.href, state.root, state.config,
                                  getOr(entity.href))>> \o rest
             ELSE IF getSelf(entity) # NoURI
                  THEN <<NavState(getSelf(entity), state.root, state.config,
                                  getOr(getSelf(entity)))>> \o rest
             ELSE rest

\* The candidates contributed by the embedded entities, in declaration
\* order (steps.ts 36-49).
RECURSIVE EntityStates(_, _, _)
EntityStates(entities, rel, state) ==
    IF entities = <<>> THEN <<>>
    ELSE LET entity == Head(entities)
             rest == EntityStates(Tail(entities), rel, state)
         IN  IF rel \notin entity.rel THEN rest
             ELSE IF entity.href # NoURI
                  THEN <<NavState(entity.href, state.root, state.config,
                                  getOr(entity.href))>> \o rest
             ELSE IF getSelf(entity) # NoURI
                  THEN <<NavState(getSelf(entity), state.root,
                                  EntityConfig(entity),
                                  getOr(getSelf(entity)))>> \o rest
             ELSE rest

\* A follow that makes the link it follows the root of the new state.
RECURSIVE LinkStatesRebased(_, _, _)
LinkStatesRebased(links, rel, state) ==
    IF links = <<>> THEN <<>>
    ELSE LET link == Head(links)
             rest == LinkStatesRebased(Tail(links), rel, state)
         IN  IF rel \notin link.rel THEN rest
             ELSE <<NavState(link.href, link.href, state.config,
                             getOr(link.href))>> \o rest

\* The candidates contributed by the top-level links (steps.ts 50-54).
RECURSIVE LinkStates(_, _, _)
LinkStates(links, rel, state) ==
    IF links = <<>> THEN <<>>
    ELSE LET link == Head(links)
             rest == LinkStates(Tail(links), rel, state)
         IN  IF rel \notin link.rel THEN rest
             ELSE <<NavState(link.href, state.root, state.config,
                             getOr(link.href))>> \o rest

\* A follow that scans the top-level links before the embedded entities.
possibleLinksFirst(siren, rel, state) ==
    LinkStates(siren.links, rel, state) \o EntityStates(siren.entities, rel, state)

\* possible, as follow has built it when both loops are over.
possible(siren, rel, state) ==
    EntityStates(siren.entities, rel, state) \o LinkStates(siren.links, rel, state)

\* A follow that wants the first flag whenever there is a candidate.
followStrict(rel, first, state, siren) ==
    LET p == possible(siren, rel, state)
    IN  IF Len(p) = 0 THEN [err |-> NoMatch, state |-> NoState]
        ELSE IF Len(p) >= 1 /\ ~first
             THEN [err |-> AmbiguousMatch, state |-> NoState]
        ELSE [err |-> NoErr, state |-> p[1]]

\* A follow that accepts two candidates.
followLoose(rel, first, state, siren) ==
    LET p == possible(siren, rel, state)
    IN  IF Len(p) = 0 THEN [err |-> NoMatch, state |-> NoState]
        ELSE IF Len(p) > 2 /\ ~first
             THEN [err |-> AmbiguousMatch, state |-> NoState]
        ELSE [err |-> NoErr, state |-> p[1]]

\* A follow without the check for no candidate: possible[0] is undefined.
followUnchecked(rel, first, state, siren) ==
    LET p == possible(siren, rel, state)
    IN  IF Len(p) > 1 /\ ~first
        THEN [err |-> AmbiguousMatch, state |-> NoState]
        ELSE [err |-> NoErr, state |-> IF Len(p) = 0 THEN NoState ELSE p[1]]

\* The outcome of the follow step on a fetched document: the error thrown,
\* or the state returned (steps.ts 55-64).
follow(rel, first, state, siren) ==
    LET p == possible(siren, rel, state)
    IN  IF Len(p) = 0 THEN [err |-> NoMatch, state |-> NoState]
        ELSE IF Len(p) > 1 /\ ~first
             THEN [err |-> AmbiguousMatch, state |-> NoState]
        ELSE [err |-> NoErr, state |-> p[1]]

\* ------------------------------------------------------------- accept
\* The heap of headers objects after accept(ctype) ran on state: the copy
\* An accept that puts the new type in front of the Accept value.
acceptHeapFront(ctype, state, heap) ==
    LET h == state.config.headers
    IN  IF h = 0 THEN Append(heap, <<ctype>>)
        ELSE [heap EXCEPT ![h] = <<ctype>> \o @]

\* { ...state.config } is shallow, so an existing headers object is the one
\* the input state holds, and "Accept" is set or extended in place
\* (steps.ts 19-26). An Accept value "a, b" is the sequence <<"a", "b">>.
acceptHeap(ctype, state, heap) ==
    LET h == state.config.headers
    IN  IF h = 0 THEN Append(heap, <<ctype>>)
        ELSE IF heap[h] # <<>> THEN [heap EXCEPT ![h] = Append(@, ctype)]
        ELSE [heap EXCEPT ![h] = <<ctype>>]

\* The state accept(ctype) returns (steps.ts 19, 20, 27).
acceptState(ctype, state, heap) ==
    LET h == state.config.headers
        newconfig == [state.config EXCEPT
                         !.headers = IF h = 0 THEN Len(heap) + 1 ELSE h]
    IN  NavState(state.cur, state.root, newconfig, getOr(state.cur))

\* The Accept header of a state, read now.
AcceptOf(state, heap) ==
    IF state.config.headers = 0 THEN <<>> ELSE heap[state.config.headers]

\* ------------------------------------------------------------- the API
Base == "/api"
GotoURI == "/g"
CTypes == {"a", "b"}

EmptyDoc == [entities |-> <<>>, links |-> <<>>]

\* The documents of the API that the chain builder navigates: the entry
\* point embeds two items (one known by its self link only, one by href)
\* and links to one other resource; the other resources are leaves.
World(uri) ==
    IF uri = Base
    THEN [entities |-> <<[rel |-> {"item"}, href |-> NoURI, self |-> "/i1"],
                         [rel |-> {"item"}, href |-> "/i2", self |-> NoURI]>>,
          links |-> <<[rel |-> {"other"}, href |-> "/w"]>>]
    ELSE EmptyDoc

\* getSiren(state): the document of the state's current resource.
getSiren(state) == World(state.cur)

AcceptStep(ctype) == [op |-> "accept", arg |-> ctype, first |-> FALSE]
FollowStep(rel, first) == [op |-> "follow", arg |-> rel, first |-> first]

\* The steps a caller appends: both content types, a follow with one match,
\* an ambiguous follow, and the same follow taking the first match.
Steps == {AcceptStep(c) : c \in CTypes}
           \cup {FollowStep("other", FALSE), FollowStep("item", FALSE),
                 FollowStep("item", TRUE)}

\* ------------------------------------------------------------- promises
Pending == [st |-> "pending", state |-> NoState, err |-> NoErr]
Resolved(state) == [st |-> "resolved", state |-> state, err |-> NoErr]
Rejected(err) == [st |-> "rejected", state |-> NoState, err |-> err]
Settled(p) == p.st # "pending"

\* ------------------------------------------------------------- state
VARIABLES
    hdr,    \* heap of headers objects: hdr[h] is the Accept value of object h
    proms,  \* the promises that navigators start from
    navs,   \* the SirenNav instances built so far
    tasks,  \* the asynchronous operations started so far
    fol,    \* one application of the follow step to a drawn document
    multi   \* one MultiNav.get() after followEach on a drawn document

vars == <<hdr, proms, navs, tasks, fol, multi>>

Terminals == {"getURL", "get", "performAction"}

\* new SirenNav(start, steps, cache); since and sqOf are history: the steps
\* appended since the instance's start was made, and the instance sqaush
\* was called on (0 if none).
SirenNav(start, steps, since, sqOf) ==
    [start |-> start, steps |-> steps, since |-> since, sqOf |-> sqOf]

\* SirenNav.create(url, base, cache) (part_000 27-31): the starting state.
create(url, base) ==
    NavState(url, base, [baseURL |-> base, entity |-> NoURI, headers |-> 0],
             getOr(url))

\* An operation in flight. cur is the promise reduce awaits: a starting
\* promise (cur > 0) or the result of the step it called last (cur = 0, res).
\* steps is what is left of the list. ran, ins and outs are history: the steps
\* called, the state each was given and the state each produced. final is
\* the promise reduce returned, accept its Accept value when it settled,
\* calls the number of transport calls made, sent the state handed to the
\* transport.
Task(kind, nav, cur, steps, out, url, nth) ==
    [kind |-> kind, nav |-> nav, pc |-> IF kind = "goto" THEN "goto" ELSE "reduce",
     cur |-> cur, res |-> Pending, steps |-> steps, out |-> out, url |-> url,
     ran |-> <<>>, ins |-> <<>>, outs |-> <<>>, final |-> Pending,
     accept |-> <<>>, calls |-> 0, sent |-> NoState, resp |-> "pending",
     nth |-> nth]

CurProm(t) == IF tasks[t].cur # 0 THEN proms[tasks[t].cur] ELSE tasks[t].res

\* A MultiNav before get() is called on it.
NoResponse == [st |-> "pending", uri |-> NoURI]
FailedResponse == [st |-> "rejected", uri |-> NoURI]
GotResponse(r) == [st |-> "resolved", uri |-> r.uri]
NoMulti == [doc |-> EmptyDoc, rel |-> "item", pc |-> "reduce",
            states |-> <<>>, reqs |-> <<>>, got |-> <<>>, resp |-> <<>>]

NoFollow == [doc |-> EmptyDoc, rel |-> "item", first |-> FALSE,
             done |-> FALSE, err |-> NoErr, state |-> NoState]

Init ==
    /\ hdr = <<>>
    /\ proms = <<Resolved(create(Base, Base))>>
    /\ navs = <<SirenNav(1, <<>>, <<>>, 0)>>
    /\ tasks = <<>>
    /\ fol = NoFollow
    /\ multi = NoMulti

\* ------------------------------------------------------------- building
\* The calls made so far: each but a terminal one returned a new instance.
Calls == (Len(navs) - 1)
           + Cardinality({t \in DOMAIN tasks : tasks[t].kind \in Terminals})

\* do(step) (part_000 105-107); follow(rel, first) and accept(ctype) are
\* do(follow(rel, first)) and do(accept(ctype)) (part_000 59-61, 157-159).
do(n, step) ==
    SirenNav(navs[n].start, Append(navs[n].steps, step),
             Append(navs[n].since, step), 0)

\* A do that pushes the step onto the receiver's own list and shares it.
DoPush(n, step) ==
    /\ Len(navs[n].steps) < MaxSteps
    /\ navs' = Append([navs EXCEPT ![n].steps = Append(@, step)], do(n, step))
    /\ UNCHANGED <<hdr, proms, tasks, fol, multi>>

Do(n, step) ==
    /\ Len(navs[n].steps) < MaxSteps
    /\ navs' = Append(navs, do(n, step))
    /\ UNCHANGED <<hdr, proms, tasks, fol, multi>>

\* reduce(this.start, this.steps, this.cache, debug), as called by sqaush and
\* by the terminal operations: the operation that runs it.
reduce(kind, n, out, nth) ==
    Task(kind, n, navs[n].start, navs[n].steps, out, NoURI, nth)

\* A sqaush that keeps the receiver's start and steps: nothing is memoized.
sqaushLazy(n, p) == SirenNav(navs[n].start, navs[n].steps, <<>>, n)

\* The instance sqaush() returns: it starts from the promise p that reduce
\* returned, with no steps.
sqaush(n, p) == SirenNav(p, <<>>, <<>>, n)

\* sqaush() (part_000 129-131): reduce is called now, and the new instance
\* starts from the promise it returned.
Sqaush(n) ==
    /\ proms' = Append(proms, Pending)
    /\ tasks' = Append(tasks, reduce("sqaush", n, Len(proms) + 1, 0))
    /\ navs' = Append(navs, sqaush(n, Len(proms) + 1))
    /\ UNCHANGED <<hdr, fol, multi>>

\* What goto's executor awaits (part_000 146).
gotoAwaits(n) == navs[n].start

\* A goto whose instance keeps the receiver's steps.
GotoKeepSteps(n, url) ==
    /\ proms' = Append(proms, Pending)
    /\ tasks' = Append(tasks, Task("goto", n, gotoAwaits(n), <<>>,
                                   Len(proms) + 1, url, 0))
    /\ navs' = Append(navs, SirenNav(Len(proms) + 1, navs[n].steps, <<>>, 0))
    /\ UNCHANGED <<hdr, fol, multi>>

\* goto(url) (part_000 144-150): a new promise, whose executor awaits the
\* receiver's start.
Goto(n, url) ==
    /\ proms' = Append(proms, Pending)
    /\ tasks' = Append(tasks, Task("goto", n, gotoAwaits(n), <<>>,
                                   Len(proms) + 1, url, 0))
    /\ navs' = Append(navs, SirenNav(Len(proms) + 1, <<>>, <<>>, 0))
    /\ UNCHANGED <<hdr, fol, multi>>

\* The terminal operations called on n before this one.
Earlier(n) == Cardinality({t \in DOMAIN tasks :
                              tasks[t].nav = n /\ tasks[t].kind \in Terminals})

Terminal(n, kind) ==
    /\ tasks' = Append(tasks, reduce(kind, n, 0, Earlier(n)))
    /\ UNCHANGED <<hdr, proms, navs, fol, multi>>

\* getURL() (part_000 169-171)
GetURL(n) == Terminal(n, "getURL")
\* get() (part_000 181-185)
Get(n) == Terminal(n, "get")
\* performAction(name, body) (part_000 88-92)
PerformAction(n) == Terminal(n, "performAction")
\* performHyperAction(name, body) (part_000 74-76) is performAction.
PerformHyperAction(n) == PerformAction(n)

\* ------------------------------------------------------------- reduction
\* A reduce that calls the last step of the list first.
lastStep(steps) == steps[Len(steps)]

\* steps[0] and steps.slice(1) (steps.ts 12)
firstStep(steps) == Head(steps)
restSteps(steps) == Tail(steps)

\* A terminal operation that calls the transport however reduce ended.
FinishAlways(t, p) ==
    LET k == tasks[t].kind
        go == k \in {"get", "performAction"}
    IN  /\ tasks' = [tasks EXCEPT
                        ![t].final = p,
                        ![t].accept = IF p.st = "resolved"
                                      THEN AcceptOf(p.state, hdr) ELSE <<>>,
                        ![t].pc = IF go THEN "transport" ELSE "done",
                        ![t].calls = IF go THEN @ + 1 ELSE @,
                        ![t].sent = IF go THEN p.state ELSE @,
                        ![t].resp = IF go THEN "pending"
                                    ELSE IF p.st = "resolved" THEN "ok"
                                    ELSE "failed"]
        /\ proms' = IF k = "sqaush"
                    THEN [proms EXCEPT ![tasks[t].out] = p] ELSE proms
        /\ UNCHANGED <<hdr, navs, fol, multi>>

\* The promise reduce returned settles as p (resolved with a state, or
\* rejected). sqaush's instance starts from that promise; getURL maps the
\* state to its cur; get and performAction go on to the transport only
\* when it resolved (state.then, part_000 90, 183).
Finish(t, p) ==
    LET k == tasks[t].kind
        go == k \in {"get", "performAction"} /\ p.st = "resolved"
    IN  /\ tasks' = [tasks EXCEPT
                        ![t].final = p,
                        ![t].accept = IF p.st = "resolved"
                                      THEN AcceptOf(p.state, hdr) ELSE <<>>,
                        ![t].pc = IF go THEN "transport" ELSE "done",
                        ![t].calls = IF go THEN @ + 1 ELSE @,
                        ![t].sent = IF go THEN p.state ELSE @,
                        ![t].resp = IF go THEN "pending"
                                    ELSE IF p.st = "resolved" THEN "ok"
                                    ELSE "failed"]
        /\ proms' = IF k = "sqaush"
                    THEN [proms EXCEPT ![tasks[t].out] = p] ELSE proms
        /\ UNCHANGED <<hdr, navs, fol, multi>>

\* steps.length == 0: reduce returns cur (steps.ts 10).
ReduceReturn(t) ==
    /\ tasks[t].pc = "reduce"
    /\ tasks[t].steps = <<>>
    /\ Settled(CurProm(t))
    /\ Finish(t, CurProm(t))

\* A reduce that catches the failure and goes on with the next step.
ReduceSwallow(t) ==
    /\ tasks[t].pc = "reduce"
    /\ tasks[t].steps # <<>>
    /\ CurProm(t).st = "rejected"
    /\ tasks' = [tasks EXCEPT ![t].cur = 0,
                              ![t].res = Resolved(NoState),
                              ![t].steps = restSteps(tasks[t].steps),
                              ![t].ran = Append(@, firstStep(tasks[t].steps)),
                              ![t].ins = Append(@, NoState)]
    /\ UNCHANGED <<hdr, proms, navs, fol, multi>>

\* await cur throws when cur is rejected (steps.ts 11).
ReduceThrow(t) ==
    /\ tasks[t].pc = "reduce"
    /\ tasks[t].steps # <<>>
    /\ CurProm(t).st = "rejected"
    /\ Finish(t, CurProm(t))

\* await cur gave a state: steps[0] is called on it and reduce goes on with
\* the promise it returned and the rest of the list (steps.ts 11-12). accept
\* is an async function with no await: it has run when the call returns.
\* follow returns a promise that waits for the document.
ReduceCall(t) ==
    /\ tasks[t].pc = "reduce"
    /\ tasks[t].steps # <<>>
    /\ CurProm(t).st = "resolved"
    /\ LET step == firstStep(tasks[t].steps)
           state == CurProm(t).state
           isAccept == step.op = "accept"
           new == acceptState(step.arg, state, hdr)
       IN  /\ hdr' = IF isAccept THEN acceptHeap(step.arg, state, hdr) ELSE hdr
           /\ tasks' = [tasks EXCEPT
                           ![t].cur = 0,
                           ![t].res = IF isAccept THEN Resolved(new) ELSE Pending,
                           ![t].steps = restSteps(tasks[t].steps),
                           ![t].ran = Append(@, step),
                           ![t].ins = Append(@, state),
                           ![t].outs = IF isAccept THEN Append(@, new) ELSE @]
    /\ UNCHANGED <<proms, navs, fol, multi>>

\* getSiren(state).then(...) of the follow step called last (steps.ts 33-65).
FollowThen(t) ==
    /\ tasks[t].pc = "reduce"
    /\ tasks[t].cur = 0
    /\ tasks[t].res.st = "pending"
    /\ LET step == tasks[t].ran[Len(tasks[t].ran)]
           state == tasks[t].ins[Len(tasks[t].ins)]
           r == follow(step.arg, step.first, state, getSiren(state))
       IN  tasks' = [tasks EXCEPT
                        ![t].res = IF r.err = NoErr THEN Resolved(r.state)
                                   ELSE Rejected(r.err),
                        ![t].outs = IF r.err = NoErr THEN Append(@, r.state)
                                    ELSE @]
    /\ UNCHANGED <<hdr, proms, navs, fol, multi>>

\* The transport collaborator (getRequest, performAction of requests) settles.
Transport(t, ok) ==
    /\ tasks[t].pc = "transport"
    /\ tasks' = [tasks EXCEPT ![t].pc = "done",
                              ![t].resp = IF ok THEN "ok" ELSE "failed"]
    /\ UNCHANGED <<hdr, proms, navs, fol, multi>>

\* A goto that keeps the cache handle of the state it started from.
gotoStateStale(url, state) ==
    NavState(url, state.root, state.config, state.value)

\* The state goto resolves its promise with (part_000 147).
gotoState(url, state) ==
    NavState(url, state.root, state.config, getOr(url))

\* goto's executor after await this.start (part_000 146-147): it resolves
\* the new promise; when this.start is rejected the await throws inside the
\* async executor, nothing calls reject, and the new promise stays pending.
GotoThen(t) ==
    /\ tasks[t].pc = "goto"
    /\ Settled(CurProm(t))
    /\ LET p == CurProm(t)
           new == gotoState(tasks[t].url, p.state)
       IN  IF p.st = "resolved"
           THEN /\ proms' = [proms EXCEPT ![tasks[t].out] = Resolved(new)]
                /\ tasks' = [tasks EXCEPT ![t].pc = "done",
                                          ![t].final = Resolved(new),
                                          ![t].accept = AcceptOf(new, hdr),
                                          ![t].resp = "ok"]
           ELSE /\ proms' = proms
                /\ tasks' = [tasks EXCEPT ![t].pc = "threw"]
    /\ UNCHANGED <<hdr, navs, fol, multi>>

\* Some step of operation t can be taken now.
CanRun(t) ==
    \/ tasks[t].pc = "reduce" /\ Settled(CurProm(t))
    \/ tasks[t].pc = "reduce" /\ tasks[t].cur = 0
    \/ tasks[t].pc = "transport"
    \/ tasks[t].pc = "goto" /\ Settled(CurProm(t))

Calling == Calls < MaxOps

Next ==
    \/ Calling /\ \E n \in DOMAIN navs, step \in Steps : Do(n, step)
    \/ Calling /\ \E n \in DOMAIN navs : Sqaush(n)
    \/ Calling /\ \E n \in DOMAIN navs : Goto(n, GotoURI)
    \/ Calling /\ \E n \in DOMAIN navs : GetURL(n)
    \/ Calling /\ \E n \in DOMAIN navs : Get(n)
    \/ Calling /\ \E n \in DOMAIN navs : PerformAction(n)
    \/ Calling /\ \E n \in DOMAIN navs : PerformHyperAction(n)
    \/ \E t \in DOMAIN tasks : ReduceReturn(t)
    \/ \E t \in DOMAIN tasks : ReduceThrow(t)
    \/ \E t \in DOMAIN tasks : ReduceCall(t)
    \/ \E t \in DOMAIN tasks : FollowThen(t)
    \/ \E t \in DOMAIN tasks, ok \in BOOLEAN : Transport(t, ok)
    \/ \E t \in DOMAIN tasks : GotoThen(t)

Spec == Init /\ [][Next]_vars

\* ------------------------------------------------------------- one by one
\* A caller that writes one fluent chain, create(..).accept(..).sqaush()...,
\* every building call made on the instance returned last, that calls getURL
\* on any instance built so far, and that makes its next call only when
\* nothing it started is still running: longer call sequences, no overlap.
Newest == Len(navs)
Quiet == \A t \in DOMAIN tasks : ~CanRun(t)
SeqCalling == Quiet /\ Calls < MaxSeqOps
SeqSteps == {AcceptStep(c) : c \in CTypes} \cup {FollowStep("item", FALSE)}

SeqNext ==
    \/ SeqCalling /\ \E step \in SeqSteps : Do(Newest, step)
    \/ SeqCalling /\ Sqaush(Newest)
    \/ SeqCalling /\ Goto(Newest, GotoURI)
    \/ SeqCalling /\ \E n \in DOMAIN navs : GetURL(n)
    \/ \E t \in DOMAIN tasks : ReduceReturn(t)
    \/ \E t \in DOMAIN tasks : ReduceThrow(t)
    \/ \E t \in DOMAIN tasks : ReduceCall(t)
    \/ \E t \in DOMAIN tasks : FollowThen(t)
    \/ \E t \in DOMAIN tasks : GotoThen(t)

SeqSpec == Init /\ [][SeqNext]_vars

\* The same caller, with what the scheduler guarantees: a promise job that
\* is ready runs, and a collaborator that has been called settles.
StepOf(t) ==
    \/ ReduceReturn(t)
    \/ ReduceThrow(t)
    \/ ReduceCall(t)
    \/ FollowThen(t)
    \/ GotoThen(t)

Started(t) == IF t \in DOMAIN tasks THEN StepOf(t) ELSE FALSE

FairSeqSpec == SeqSpec /\ \A t \in 1..MaxSeqOps : WF_vars(Started(t))

\* ------------------------------------------------------------- documents
\* The follow step alone, on every document of a bounded shape. Each item
\* has URIs of its own, so that the state follow returns names the item it
\* was made from.
Shapes == {"href", "self", "both", "neither"}
RelSets == {{"item"}, {"other"}, {"item", "other"}}

EntityAt(i, rel, shape) ==
    [rel |-> rel,
     href |-> IF shape \in {"href", "both"} THEN "/e" \o ToString(i) ELSE NoURI,
     self |-> IF shape \in {"self", "both"}
              THEN "/e" \o ToString(i) \o "/self" ELSE NoURI]

LinkAt(j, rel) == [rel |-> rel, href |-> "/l" \o ToString(j)]

EntityLists ==
    UNION {{[i \in 1..k |-> EntityAt(i, r[i], sh[i])] :
               r \in [1..k -> RelSets], sh \in [1..k -> Shapes]} :
           k \in 0..MaxEntities}

LinkLists ==
    UNION {{[j \in 1..k |-> LinkAt(j, r[j])] : r \in [1..k -> RelSets]} :
           k \in 0..MaxLinks}

Docs == {[entities |-> e, links |-> l] : e \in EntityLists, l \in LinkLists}

\* The state follow is applied to: the one create made, after accept("a").
FollowHeap == <<<<"a">>>>
FollowInput == acceptState("a", create(Base, Base), <<>>)

FollowInit ==
    /\ hdr = FollowHeap
    /\ proms = <<Resolved(FollowInput)>>
    /\ navs = <<SirenNav(1, <<>>, <<>>, 0)>>
    /\ tasks = <<>>
    /\ \E d \in Docs, r \in Rels, f \in BOOLEAN :
          fol = [NoFollow EXCEPT !.doc = d, !.rel = r, !.first = f]
    /\ multi = NoMulti

\* The follow step's callback runs on the fetched document.
ApplyFollow ==
    /\ ~fol.done
    /\ LET r == follow(fol.rel, fol.first, proms[1].state, fol.doc)
       IN  fol' = [fol EXCEPT !.done = TRUE, !.err = r.err, !.state = r.state]
    /\ UNCHANGED <<hdr, proms, navs, tasks, multi>>

FollowNext == ApplyFollow

FollowSpec == FollowInit /\ [][FollowNext]_vars

\* ------------------------------------------------------------- follow: claims
\* The items of the drawn document that carry the relation asked for.
EntityCarriers == {i \in DOMAIN fol.doc.entities : fol.rel \in fol.doc.entities[i].rel}
LinkCarriers == {j \in DOMAIN fol.doc.links : fol.rel \in fol.doc.links[j].rel}
NumCarriers == Cardinality(EntityCarriers) + Cardinality(LinkCarriers)

\* An embedded entity can be followed when it has an href or a self link.
HasURI(e) == e.href # NoURI \/ e.self # NoURI
UsableEntities == {i \in EntityCarriers : HasURI(fol.doc.entities[i])}
NumUsable == Cardinality(UsableEntities) + Cardinality(LinkCarriers)

Least(S) == CHOOSE i \in S : \A k \in S : i <= k

\* The state that stands for an item, made from the state s.
StateOfEntity(e, s) ==
    IF e.href # NoURI
    THEN [cur |-> e.href, root |-> s.root, config |-> s.config, value |-> e.href]
    ELSE [cur |-> e.self, root |-> s.root,
          config |-> [baseURL |-> NoURI, entity |-> e.self, headers |-> 0],
          value |-> e.self]
StateOfLink(l, s) ==
    [cur |-> l.href, root |-> s.root, config |-> s.config, value |-> l.href]

\* The state of the first item, entities before links, that can be followed.
FirstUsable ==
    IF UsableEntities # {}
    THEN StateOfEntity(fol.doc.entities[Least(UsableEntities)], proms[1].state)
    ELSE StateOfLink(fol.doc.links[Least(LinkCarriers)], proms[1].state)

\* C1, as stated: when exactly one item carries the relation, follow
\* succeeds with the state for that item, whatever the item's shape and
\* whatever allowFirst.
C1_SingleItemAlwaysFollowed ==
    (fol.done /\ NumCarriers = 1) =>
        /\ fol.err = NoErr
        /\ NumUsable = 1 => fol.state = FirstUsable

\* C1, amended: when exactly one item carries the relation, follow succeeds
\* with the state for that item, for either allowFirst, if the item is a
\* link or an entity with an href or a self link; if it is an entity with
\* neither, follow fails with NoMatch.
C1_SingleUsableItemFollowed ==
    (fol.done /\ NumCarriers = 1) =>
        IF NumUsable = 1
        THEN fol.err = NoErr /\ fol.state = FirstUsable
        ELSE fol.err = NoMatch /\ fol.state = NoState

C1_Witness ==
    /\ fol.done /\ ~fol.first /\ NumCarriers = 1
    /\ \E i \in EntityCarriers : /\ fol.doc.entities[i].href = NoURI
                                 /\ fol.doc.entities[i].self # NoURI
                                 /\ fol.state.cur = fol.doc.entities[i].self
    /\ fol.err = NoErr

\* C2, as stated: when two or more items carry the relation and allowFirst
\* is unset, follow fails with AmbiguousMatch and gives no state.
C2_TwoItemsAmbiguous ==
    (fol.done /\ ~fol.first /\ NumCarriers >= 2) =>
        fol.err = AmbiguousMatch /\ fol.state = NoState

\* C2, amended: when two or more of the items that carry the relation can
\* be followed (links, entities with an href or a self link) and allowFirst
\* is unset, follow fails with AmbiguousMatch and gives no state; entities
\* with neither an href nor a self link do not count.
C2_TwoUsableItemsAmbiguous ==
    (fol.done /\ ~fol.first /\ NumCarriers >= 2) =>
        /\ NumUsable >= 2 => fol.err = AmbiguousMatch /\ fol.state = NoState
        /\ NumUsable = 1 => fol.err = NoErr /\ fol.state = FirstUsable
        /\ NumUsable = 0 => fol.err = NoMatch /\ fol.state = NoState

C2_Witness ==
    /\ fol.done /\ ~fol.first
    /\ Cardinality(UsableEntities) = 1 /\ Cardinality(LinkCarriers) = 1
    /\ fol.err = AmbiguousMatch

\* C3: when no embedded entity and no top-level link carries the relation,
\* follow fails with NoMatch, for either allowFirst.
C3_NoItemNoMatch ==
    (fol.done /\ NumCarriers = 0) => fol.err = NoMatch /\ fol.state = NoState

C3_Witness ==
    /\ fol.done /\ fol.first /\ NumCarriers = 0
    /\ fol.doc.entities # <<>> /\ fol.doc.links # <<>>
    /\ fol.err = NoMatch

\* C4: when several candidates match and allowFirst is true, follow
\* succeeds with the first candidate in scan order: the matching entities in
\* declaration order, then the matching links in declaration order.
C4_FirstInScanOrder ==
    (fol.done /\ fol.first /\ NumUsable >= 2) =>
        fol.err = NoErr /\ fol.state = FirstUsable

C4_Witness ==
    /\ fol.done /\ fol.first
    /\ UsableEntities = {2} /\ LinkCarriers = {1, 2}
    /\ fol.err = NoErr /\ fol.state.cur \in {fol.doc.entities[2].href,
                                             fol.doc.entities[2].self}

\* ------------------------------------------------------------- chains: claims
IsPrefix(a, b) == Len(a) <= Len(b) /\ \A i \in DOMAIN a : a[i] = b[i]
Reducing(t) == tasks[t].kind # "goto"

\* C5: an accept step never modifies the configuration of the state it
\* receives: the Accept header of every state a step was given is, after any
\* step of the program, what it was before.
C5_AcceptLeavesInputAlone ==
    [][\A t \in DOMAIN tasks : \A i \in DOMAIN tasks'[t].ins :
          AcceptOf(tasks'[t].ins[i], hdr') = AcceptOf(tasks'[t].ins[i], hdr)]_vars

\* C6: the state goto resolves to carries the configuration accumulated by
\* the receiver's chain: when the receiver's steps are all accept steps, the
\* Accept header of goto's state ends with their content types, in order.
AllAccept(steps) == \A i \in DOMAIN steps : steps[i].op = "accept"
ArgsOf(steps) == [i \in DOMAIN steps |-> steps[i].arg]
EndsWith(a, b) ==
    /\ Len(b) <= Len(a)
    /\ \A i \in DOMAIN b : a[Len(a) - Len(b) + i] = b[i]

C6_GotoKeepsAccumulatedConfig ==
    \A t \in DOMAIN tasks :
        (tasks[t].kind = "goto" /\ tasks[t].pc = "done"
            /\ AllAccept(navs[tasks[t].nav].steps)) =>
        EndsWith(AcceptOf(tasks[t].final.state, hdr),
                 ArgsOf(navs[tasks[t].nav].steps))

\* C7: every terminal operation that was called eventually settles.
Called(t) == IF t \in DOMAIN tasks THEN tasks[t].kind \in Terminals ELSE FALSE
HasSettled(t) == IF t \in DOMAIN tasks THEN tasks[t].pc = "done" ELSE FALSE

C7_TerminalsSettle ==
    \A t \in 1..MaxSeqOps : [](Called(t) => <>HasSettled(t))

\* C8: the steps appended before a sqaush are executed by the reduction
\* that sqaush starts, each once and in order, and by nothing else: an
\* operation called on the squashed instance, or on one derived from it,
\* executes only steps appended after the sqaush.
C8_SquashedStepsRunOnce ==
    /\ \A m \in DOMAIN navs : navs[m].sqOf # 0 =>
          \E s \in DOMAIN tasks :
              /\ tasks[s].kind = "sqaush" /\ tasks[s].nav = navs[m].sqOf
              /\ tasks[s].out = navs[m].start
              /\ IsPrefix(tasks[s].ran, navs[navs[m].sqOf].steps)
              /\ (tasks[s].pc = "done" /\ tasks[s].final.st = "resolved")
                    => tasks[s].ran = navs[navs[m].sqOf].steps
    /\ \A u \in DOMAIN tasks : Reducing(u) =>
          IsPrefix(tasks[u].ran, navs[tasks[u].nav].since)

C8_Witness ==
    \E s, u \in DOMAIN tasks :
        /\ tasks[s].kind = "sqaush" /\ tasks[s].pc = "done"
        /\ Len(tasks[s].ran) = 1
        /\ tasks[u].kind \in Terminals /\ tasks[u].pc = "done"
        /\ navs[tasks[u].nav].start = tasks[s].out
        /\ tasks[u].final.st = "resolved" /\ tasks[u].ran = <<>>

\* C9: the first terminal evaluation of navigator.sqaush() and the first
\* terminal evaluation of navigator end alike: both fail, or both reach a
\* state with the same current URI, root and configuration.
Reached(t) ==
    [st |-> tasks[t].final.st, cur |-> tasks[t].final.state.cur,
     root |-> tasks[t].final.state.root,
     baseURL |-> tasks[t].final.state.config.baseURL,
     entity |-> tasks[t].final.state.config.entity,
     accept |-> tasks[t].accept]

C9_SquashSameFinalState ==
    \A u, v \in DOMAIN tasks :
        (/\ tasks[u].kind \in Terminals /\ tasks[v].kind \in Terminals
         /\ tasks[u].final.st # "pending" /\ tasks[v].final.st # "pending"
         /\ tasks[u].nth = 0 /\ tasks[v].nth = 0
         /\ navs[tasks[v].nav].sqOf = tasks[u].nav) =>
        Reached(u) = Reached(v)

\* C10: reduction applies the steps in list order, one at a time: a step is
\* called only when the one before it has produced its state, it is given
\* exactly that state (the first one the resolved starting state), and the
\* result is the state the last step produced; with no steps the result is
\* the starting promise's and no step is called.
C10_StepsInOrder ==
    \A t \in DOMAIN tasks : Reducing(t) =>
        LET k == tasks[t]
            list == navs[k.nav].steps
        IN  /\ IsPrefix(k.ran, list)
            /\ Len(k.ins) = Len(k.ran)
            /\ Len(k.outs) \in {Len(k.ran), Len(k.ran) - 1}
            /\ k.ran # <<>> => k.ins[1] = proms[navs[k.nav].start].state
            /\ \A i \in 2..Len(k.ran) : k.ins[i] = k.outs[i - 1]
            /\ k.final.st = "resolved" =>
                  /\ k.ran = list /\ Len(k.outs) = Len(list)
                  /\ k.final.state = IF list = <<>>
                                     THEN proms[navs[k.nav].start].state
                                     ELSE k.outs[Len(list)]
            /\ (list = <<>> /\ k.final.st # "pending") =>
                  k.final = proms[navs[k.nav].start] /\ k.ran = <<>>

C10_Witness ==
    \E t \in DOMAIN tasks :
        /\ tasks[t].kind \in Terminals /\ tasks[t].final.st = "resolved"
        /\ Len(tasks[t].ran) = 2
        /\ tasks[t].ran[1].op = "follow" /\ tasks[t].ran[2].op = "accept"
        /\ tasks[t].final.state = tasks[t].outs[2]

\* C11: when a step fails, or the starting promise is rejected, no later
\* step is called, no step is called again, and the reduction fails with the
\* error of what failed.
C11_FailFast ==
    \A t \in DOMAIN tasks : Reducing(t) =>
        LET k == tasks[t]
            failed == k.cur = 0 /\ k.res.st = "rejected"
        IN  /\ IsPrefix(k.ran, navs[k.nav].steps)
            /\ Len(k.outs) >= Len(k.ran) - 1
            /\ failed => Len(k.outs) = Len(k.ran) - 1
            /\ k.final.st = "rejected" =>
                  IF k.ran = <<>>
                  THEN k.final = proms[navs[k.nav].start]
                  ELSE failed /\ k.final.err = k.res.err
                          /\ k.final.state = NoState

C11_Witness ==
    \E t \in DOMAIN tasks :
        /\ tasks[t].kind \in Terminals /\ tasks[t].pc = "done"
        /\ Len(navs[tasks[t].nav].steps) = 2
        /\ tasks[t].ran = <<FollowStep("item", FALSE)>>
        /\ tasks[t].final = Rejected(AmbiguousMatch)
        /\ tasks[t].resp = "failed"

\* C12: a chain-building call never changes an instance that exists: the
\* receiver keeps its steps and its start, the instance do returns has the
\* receiver's steps with the step appended and the receiver's start.
C12_ReceiverUnchanged ==
    [][/\ \A n \in DOMAIN navs : navs'[n] = navs[n]
       /\ (Len(navs') > Len(navs) /\ navs'[Len(navs')].steps # <<>>) =>
             \E n \in DOMAIN navs, step \in Steps :
                 /\ navs'[Len(navs')].steps = Append(navs[n].steps, step)
                 /\ navs'[Len(navs')].start = navs[n].start]_vars

C12_Witness ==
    /\ Len(navs) = 4
    /\ navs[1].steps = <<>>
    /\ navs[2].steps = <<AcceptStep("a")>>
    /\ navs[3].steps = <<AcceptStep("a"), FollowStep("other", FALSE)>>
    /\ navs[4].steps = <<AcceptStep("a"), AcceptStep("b")>>
    /\ \A n \in DOMAIN navs : navs[n].start = 1

\* C13: a chain of accept steps applied to a state that has no Accept header
\* ends in a state whose Accept value, read when the chain ends, is the
\* accepted types in call order.
C13_AcceptInCallOrder ==
    \A t \in DOMAIN tasks :
        LET list == navs[tasks[t].nav].steps
            start == proms[navs[tasks[t].nav].start]
        IN  (/\ Reducing(t) /\ tasks[t].pc = "done"
             /\ tasks[t].final.st = "resolved"
             /\ AllAccept(list)
             /\ start.state.config.headers = 0) =>
            tasks[t].accept = ArgsOf(list)

C13_Witness ==
    \E t \in DOMAIN tasks :
        /\ tasks[t].kind = "getURL" /\ tasks[t].pc = "done"
        /\ navs[tasks[t].nav].steps = <<AcceptStep("a"), AcceptStep("b")>>
        /\ proms[navs[tasks[t].nav].start].state.config.headers = 0
        /\ tasks[t].accept = <<"a", "b">>

\* C14: the instance goto(newURI) returns has no steps; the receiver's
\* steps are not run for it; its starting state has cur = newURI and the
\* root of the receiver's starting state; and getURL on it, with nothing
\* appended, gives newURI.
C14_GotoStartsAfresh ==
    \A g \in DOMAIN tasks : tasks[g].kind = "goto" =>
        /\ \E m \in DOMAIN navs :
               navs[m].start = tasks[g].out /\ navs[m].steps = <<>>
        /\ tasks[g].ran = <<>>
        /\ tasks[g].pc = "done" =>
              /\ proms[tasks[g].out] = tasks[g].final
              /\ tasks[g].final.st = "resolved"
              /\ tasks[g].final.state.cur = tasks[g].url
              /\ tasks[g].final.state.root =
                     proms[navs[tasks[g].nav].start].state.root
        /\ \A u \in DOMAIN tasks :
              (/\ tasks[u].kind = "getURL" /\ tasks[u].pc = "done"
               /\ navs[tasks[u].nav].start = tasks[g].out
               /\ navs[tasks[u].nav].steps = <<>>) =>
              /\ tasks[u].ran = <<>>
              /\ tasks[u].final.st = "resolved"
              /\ tasks[u].final.state.cur = tasks[g].url

C14_Witness ==
    \E g, u \in DOMAIN tasks :
        /\ tasks[g].kind = "goto" /\ tasks[g].pc = "done"
        /\ navs[tasks[g].nav].steps # <<>>
        /\ tasks[u].kind = "getURL" /\ tasks[u].pc = "done"
        /\ navs[tasks[u].nav].start = tasks[g].out
        /\ tasks[u].final.state.cur = GotoURI

\* ------------------------------------------------------------- MultiNav
\* new MultiNav(Promise.resolve([state]), [followEach(rel)], []).get() on
\* every document of up to MaxMulti entities and one link.
MaxMulti == 3
MultiRelSets == {{"item"}, {"other"}}

MultiDocs ==
    {[entities |-> e, links |-> l] :
        e \in UNION {{[i \in 1..k |-> EntityAt(i, r[i], sh[i])] :
                         r \in [1..k -> MultiRelSets], sh \in [1..k -> Shapes]} :
                     k \in 0..MaxMulti},
        l \in UNION {{[j \in 1..k |-> LinkAt(j, r[j])] :
                         r \in [1..k -> MultiRelSets]} : k \in 0..1}}

\* followEach(rel) on the array holding one state: every match of the
\* relation in the state's document, none required and any number allowed.
followEach(rel, state, siren) == possible(siren, rel, state)

\* reduceEach over the steps of the chain, here the one followEach step.
reduceEach(state, rel, siren) == followEach(rel, state, siren)

\* What getRequest(state) resolves to: the resource at the state's cur.
getRequest(state) == [uri |-> state.cur]

\* A get that maps over the array from its end.
multiMapReversed(states) ==
    [i \in DOMAIN states |-> getRequest(states[Len(states) + 1 - i])]

\* s.map(x => getRequest(x)) (part_001 20): one request per state, at the
\* state's index.
multiMap(states) == [i \in DOMAIN states |-> getRequest(states[i])]

MultiInit ==
    /\ hdr = FollowHeap
    /\ proms = <<Resolved(FollowInput)>>
    /\ navs = <<SirenNav(1, <<>>, <<>>, 0)>>
    /\ tasks = <<>>
    /\ fol = NoFollow
    /\ \E d \in MultiDocs : multi = [NoMulti EXCEPT !.doc = d]

\* get() reduces the starting array through the steps (part_001 19).
MultiReduce ==
    /\ multi.pc = "reduce"
    /\ multi' = [multi EXCEPT
                    !.pc = "map",
                    !.states = reduceEach(proms[1].state, multi.rel, multi.doc)]
    /\ UNCHANGED <<hdr, proms, navs, tasks, fol>>

\* state.then: every state of the array is requested (part_001 20).
MultiMap ==
    /\ multi.pc = "map"
    /\ multi' = [multi EXCEPT
                    !.pc = "all",
                    !.reqs = multiMap(multi.states),
                    !.got = [i \in DOMAIN multi.states |-> NoResponse]]
    /\ UNCHANGED <<hdr, proms, navs, tasks, fol>>

\* One of the requests settles; they settle in any order.
MultiSettle(i, ok) ==
    /\ multi.pc = "all"
    /\ multi.got[i] = NoResponse
    /\ multi' = [multi EXCEPT
                    !.got[i] = IF ok THEN GotResponse(multi.reqs[i])
                               ELSE FailedResponse]
    /\ UNCHANGED <<hdr, proms, navs, tasks, fol>>

\* Promise.all resolves with the values at the indices of their promises
\* when all resolved, and MultiResponse.create gets them (part_001 20-21).
MultiAll ==
    /\ multi.pc = "all"
    /\ \A i \in DOMAIN multi.got : multi.got[i].st = "resolved"
    /\ multi' = [multi EXCEPT
                    !.pc = "done",
                    !.resp = [i \in DOMAIN multi.got |-> [uri |-> multi.got[i].uri]]]
    /\ UNCHANGED <<hdr, proms, navs, tasks, fol>>

\* Promise.all rejects as soon as one request is rejected.
MultiFail ==
    /\ multi.pc = "all"
    /\ \E i \in DOMAIN multi.got : multi.got[i] = FailedResponse
    /\ multi' = [multi EXCEPT !.pc = "failed"]
    /\ UNCHANGED <<hdr, proms, navs, tasks, fol>>

MultiNext ==
    \/ MultiReduce
    \/ MultiMap
    \/ \E i \in DOMAIN multi.got, ok \in BOOLEAN : MultiSettle(i, ok)
    \/ MultiAll
    \/ MultiFail

MultiSpec == MultiInit /\ [][MultiNext]_vars

\* The URIs of the items of the document that carry the relation and can
\* be followed, entities before links, each kind in document order.
EntityURI(e) == IF e.href # NoURI THEN e.href ELSE e.self
MatchURIs(doc, rel) ==
    LET Carries(x) == rel \in x.rel
        Usable(e) == Carries(e) /\ HasURI(e)
        es == SelectSeq(doc.entities, Usable)
        ls == SelectSeq(doc.links, Carries)
    IN  [i \in DOMAIN es |-> EntityURI(es[i])] \o [j \in DOMAIN ls |-> ls[j].href]

\* C15: get() gives one result per state of the final array, result i being
\* the fetch of state i's cur; after followEach(rel) these are the matches of
\* the relation in document order.
C15_OneResultPerStateInOrder ==
    multi.pc = "done" =>
        /\ Len(multi.resp) = Len(multi.states)
        /\ \A i \in DOMAIN multi.states :
               multi.resp[i] = [uri |-> multi.states[i].cur]
        /\ [i \in DOMAIN multi.resp |-> multi.resp[i].uri]
               = MatchURIs(multi.doc, multi.rel)

C15_Witness ==
    /\ multi.pc = "done"
    /\ Len(multi.doc.entities) = 3
    /\ \A i \in 1..3 : /\ "item" \in multi.doc.entities[i].rel
                       /\ multi.doc.entities[i].href # NoURI
    /\ Len(multi.resp) = 3
    /\ \A i \in 1..3 : multi.resp[i].uri = multi.doc.entities[i].href

\* Every state the program holds: in a settled promise, handed to a step,
\* returned by a step, or reached by an operation.
StatesOf(p) == IF p.st = "resolved" THEN {p.state} ELSE {}
AllStates ==
    UNION {StatesOf(proms[i]) : i \in DOMAIN proms}
    \cup UNION {StatesOf(tasks[t].res) \cup StatesOf(tasks[t].final)
                    \cup {tasks[t].ins[i] : i \in DOMAIN tasks[t].ins}
                    \cup {tasks[t].outs[i] : i \in DOMAIN tasks[t].outs}
                : t \in DOMAIN tasks}

\* C16: the cache handle of every state is the one cache.getOr gives for
\* the state's own cur.
C16_HandleOfOwnURI ==
    \A state \in AllStates : state.value = getOr(state.cur)

C16_Witness ==
    /\ \E state \in AllStates : state.cur = GotoURI /\ state.value = getOr(GotoURI)
    /\ \E state \in AllStates : state.cur = "/w" /\ state.value = getOr("/w")

\* C17: the root of every state is the base URI create was given.
C17_RootIsBase ==
    \A state \in AllStates : state.root = Base

C17_Witness ==
    /\ \E state \in AllStates : /\ state.cur = "/i1" /\ state.root = Base
                                 /\ state.config.entity = "/i1"
    /\ \E state \in AllStates : state.cur = GotoURI /\ state.root = Base

\* C18: get and performAction call the transport at most once, only when
\* every step of the chain has returned a state, and with the state the
\* reduction ended in; when a step failed the transport is not called and
\* the operation fails. getURL never calls it.
C18_TransportAfterSuccess ==
    \A t \in DOMAIN tasks : Reducing(t) =>
        LET k == tasks[t] IN
        /\ k.calls <= 1
        /\ k.kind \notin {"get", "performAction"} => k.calls = 0
        /\ k.pc = "transport" => k.calls = 1
        /\ k.calls = 1 =>
              /\ k.final.st = "resolved"
              /\ k.ran = navs[k.nav].steps
              /\ Len(k.outs) = Len(k.ran)
              /\ k.sent = k.final.state
        /\ (k.cur = 0 /\ k.res.st = "rejected") => k.calls = 0
        /\ k.final.st = "rejected" =>
              k.calls = 0 /\ k.pc = "done" /\ k.resp = "failed"

C18_Witness ==
    \E t \in DOMAIN tasks :
        /\ tasks[t].kind \in {"get", "performAction"}
        /\ tasks[t].pc = "done" /\ tasks[t].calls = 1
        /\ tasks[t].ran = <<FollowStep("other", FALSE)>>
        /\ tasks[t].sent.cur = "/w"

\* C19: the configuration of the state follow returns is the current
\* state's configuration when the candidate taken is an entity with an href
\* or a top-level link, and the entity's own data, without the headers
\* accumulated so far, when it is an entity followed by its self link.
WinnerKind ==
    IF UsableEntities # {}
    THEN IF fol.doc.entities[Least(UsableEntities)].href # NoURI
         THEN "href" ELSE "self"
    ELSE "link"

C19_ConfigByCandidateKind ==
    (fol.done /\ fol.err = NoErr) =>
        IF WinnerKind \in {"href", "link"}
        THEN /\ fol.state.config = proms[1].state.config
             /\ AcceptOf(fol.state, hdr) = AcceptOf(proms[1].state, hdr)
        ELSE /\ fol.state.config.entity
                    = fol.doc.entities[Least(UsableEntities)].self
             /\ fol.state.config.baseURL = NoURI
             /\ fol.state.config # proms[1].state.config
             /\ AcceptOf(fol.state, hdr) = <<>>

C19_Witness ==
    /\ fol.done /\ fol.err = NoErr
    /\ WinnerKind = "self"
    /\ AcceptOf(proms[1].state, hdr) = <<"a">>
    /\ AcceptOf(fol.state, hdr) = <<>>
    /\ LinkCarriers # {}

\* C20: the state a terminal operation on an instance ends in depends only
\* on the instance's starting state and steps: two terminal operations on
\* instances with the same start and the same steps end alike (both fail,
\* or both reach the same current URI, root and configuration, Accept
\* included), whatever was evaluated before or in between.
C20_EvaluationsIsolated ==
    \A u, v \in DOMAIN tasks :
        (/\ tasks[u].kind \in Terminals /\ tasks[v].kind \in Terminals
         /\ tasks[u].final.st # "pending" /\ tasks[v].final.st # "pending"
         /\ navs[tasks[u].nav].start = navs[tasks[v].nav].start
         /\ navs[tasks[u].nav].steps = navs[tasks[v].nav].steps) =>
        Reached(u) = Reached(v)

====
